---------------------------- MODULE Spec2Model ----------------------------
(***************************************************************************)
(* Model of braw_timelapse.py: the atom codec (Atom, ContainerAtom,        *)
(* LeafAtom, DecodedLeafAtom and the registered atom classes), BrawReader  *)
(* and BrawTimelapser.                                                     *)
(*                                                                         *)
(* Byte buffers are sequences of 0..255.  A memoryview slice (the source   *)
(* slices self.mv, and every atom keeps the slice it was built from) is a  *)
(* view [lo, hi): a pair of absolute offsets into the underlying buffer.   *)
(* An operation that can raise returns a record whose err field is "none"  *)
(* or the name of the exception.                                           *)
(***************************************************************************)
EXTENDS Integers, Naturals, Sequences, FiniteSets, TLC

VARIABLES
    mv,            \* BrawReader.mv: the bytes of the source file
    pc,            \* position of main(): parse, then the calls of generate
    err,           \* the exception that ended main, or "none"
    md_ofs,        \* BrawReader.md_ofs
    md_blk,        \* BrawReader.md_blk, a view of mv
    md_atom,       \* BrawReader.md_atom, the parsed tree
    trk_vid_idx,   \* BrawReader.trk_vid_idx
    trk_aud_idx,   \* BrawReader.trk_aud_idx
    trk_tim_idx,   \* BrawReader.trk_tim_idx
    frames,        \* BrawReader.frames, views of mv
    n,             \* generate's argument n
    start,         \* generate's argument start
    frames_data,   \* BrawTimelapser.frames_data
    frames_offset, \* BrawTimelapser.frames_offset
    write_list,    \* BrawTimelapser.write_list
    write_offset,  \* BrawTimelapser.write_offset
    header,        \* BrawTimelapser.header, the 16-byte bytearray
    dst,           \* the destination file: does it exist, and what was written
    call,          \* the last add_chunk call made through the API, and its outcome
    buf,           \* the buffer handed to Atom.for_buf
    atom,          \* the result of Atom.for_buf(buf)
    ser,           \* the result of atom.serialize()
    scan_o,        \* ContainerAtom.__init__ of the root: o, the offset of the next child
    scan_children  \* ContainerAtom.__init__ of the root: self.children so far

readerVars == <<mv, md_ofs, md_blk, md_atom, trk_vid_idx, trk_aud_idx, trk_tim_idx, frames>>
lapserVars == <<n, start, frames_data, frames_offset, write_list, write_offset, header, dst>>
codecVars  == <<buf, atom, ser, scan_o, scan_children>>
vars == <<pc, err, readerVars, lapserVars, call, codecVars>>

---------------------------------------------------------------------------
(* Integers, bytes and views *)

Min(a, b) == IF a < b THEN a ELSE b

Max(a, b) == IF a > b THEN a ELSE b

NoneVal == -1

\* Number of bytes of a view.
ViewLen(v) == v.hi - v.lo

\* The view of a whole buffer.
WholeView(B) == [lo |-> 0, hi |-> Len(B)]

\* Python's v[a:b] on a memoryview, 0 <= a and 0 <= b: both ends are clipped
\* to the length and an inverted range is empty.
Slice(v, a, b) ==
    LET len == ViewLen(v)
        a1  == Min(a, len)
        b1  == Min(b, len)
    IN  [lo |-> v.lo + a1, hi |-> v.lo + Max(a1, b1)]

\* The bytes a view shows.
ViewBytes(B, v) == SubSeq(B, v.lo + 1, v.hi)

\* struct.unpack of one big-endian unsigned integer of w bytes at absolute
\* offset off of B.
RECURSIVE UnpackBE(_, _, _)
UnpackBE(B, off, w) ==
    IF w = 0 THEN 0 ELSE UnpackBE(B, off, w - 1) * 256 + B[off + w]

\* struct.pack of one big-endian unsigned integer of w bytes (x fits).
RECURSIVE PackBE(_, _)
PackBE(x, w) ==
    IF w = 0 THEN <<>> ELSE PackBE(x \div 256, w - 1) \o <<x % 256>>

\* struct.pack raises struct.error unless 0 <= x < 256^w.
RECURSIVE Fits(_, _)
Fits(x, w) ==
    IF w = 0 THEN x = 0 ELSE x >= 0 /\ Fits(x \div 256, w - 1)

\* b''.join(list)
RECURSIVE Join(_)
Join(ss) == IF ss = <<>> THEN <<>> ELSE Head(ss) \o Join(Tail(ss))

---------------------------------------------------------------------------
(* The atom classes: type codes and schemas *)

AID_MOOV == 1836019574  \* 0x6d6f6f76
AID_MVHD == 1836476516  \* 0x6d766864
AID_TRAK == 1953653099  \* 0x7472616b
AID_TKHD == 1953196132  \* 0x746b6864
AID_EDTS == 1701082227  \* 0x65647473
AID_ELST == 1701606260  \* 0x656c7374
AID_TREF == 1953654118  \* 0x74726566
AID_TMCD == 1953325924  \* 0x746d6364
AID_MDIA == 1835297121  \* 0x6d646961
AID_MDHD == 1835296868  \* 0x6d646864
AID_HDLR == 1751411826  \* 0x68646c72
AID_MINF == 1835626086  \* 0x6d696e66
AID_VMHD == 1986881636  \* 0x766d6864
AID_SMHD == 1936549988  \* 0x736d6864
AID_GMHD == 1735223396  \* 0x676d6864
AID_GMIN == 1735223662  \* 0x676d696e
AID_TEXT == 1952805748  \* 0x74657374
AID_DINF == 1684631142  \* 0x64696e66
AID_DREF == 1685218662  \* 0x64726566
AID_STBL == 1937007212  \* 0x7374626c
AID_STSD == 1937011556  \* 0x73747364
AID_SKIP == 1936419184  \* 0x736b6970
AID_STTS == 1937011827  \* 0x73747473
AID_STSC == 1937011555  \* 0x73747363
AID_STSZ == 1937011578  \* 0x7374737a
AID_CO64 == 1668232756  \* 0x636f3634
AID_META == 1835365473  \* 0x6d657461
AID_KEYS == 1801812339  \* 0x6b657973
AID_ILST == 1768715124  \* 0x696c7374

K_WIDE == 2003395685    \* 0x77696465
K_MDAT == 1835295092    \* 0x6d646174

\* The size in bytes of one struct format code used by the schemas.
FmtSize(f) ==
    CASE f = "B"   -> 1
      [] f = "H"   -> 2
      [] f = "I"   -> 4
      [] f = "Q"   -> 8
      [] f = "3s"  -> 3
      [] f = "4s"  -> 4
      [] f = "8s"  -> 8
      [] f = "10s" -> 10
      [] f = "36s" -> 36

\* An 's' code unpacks to a bytes object, the others to an integer.
FmtIsBytes(f) == f \in {"3s", "4s", "8s", "10s", "36s"}

MVHD_H == <<
    <<"version", "B">>, <<"flags", "3s">>, <<"creation_time", "I">>,
    <<"modification_time", "I">>, <<"timescale", "I">>, <<"duration", "I">>,
    <<"preferred_rate", "I">>, <<"preferred_volume", "H">>,
    <<"reserved", "10s">>, <<"matrix", "36s">>, <<"preview_time", "I">>,
    <<"preview_duration", "I">>, <<"poster_time", "I">>,
    <<"selection_time", "I">>, <<"selection_duration", "I">>,
    <<"current_time", "I">>, <<"next_track_id", "I">> >>

TKHD_H == <<
    <<"version", "B">>, <<"flags", "3s">>, <<"creation_time", "I">>,
    <<"modification_time", "I">>, <<"track_id", "I">>, <<"reserved1", "4s">>,
    <<"duration", "I">>, <<"reserved2", "8s">>, <<"layer", "H">>,
    <<"alternate_group", "H">>, <<"volume", "H">>, <<"reserved3", "H">>,
    <<"matrix", "36s">>, <<"track_width", "I">>, <<"track_height", "I">> >>

ELST_H == << <<"version", "B">>, <<"flags", "3s">>, <<"num_entries", "I">> >>

ELST_L == << <<"track_duration", "I">>, <<"media_time", "I">>, <<"media_rate", "I">> >>

MDHD_H == <<
    <<"version", "B">>, <<"flags", "3s">>, <<"creation_time", "I">>,
    <<"modification_time", "I">>, <<"timescale", "I">>, <<"duration", "I">>,
    <<"language", "H">>, <<"quality", "H">> >>

STTS_H == << <<"version", "B">>, <<"flags", "3s">>, <<"num_entries", "I">> >>

STTS_L == << <<"sample_count", "I">>, <<"sample_duration", "I">> >>

STSC_H == << <<"version", "B">>, <<"flags", "3s">>, <<"num_entries", "I">> >>

STSC_L == << <<"first_chunk", "I">>, <<"samples_per_chunk", "I">>,
             <<"sample_description_id", "I">> >>

STSZ_H == << <<"version", "B">>, <<"flags", "3s">>, <<"sample_size", "I">>,
             <<"num_entries", "I">> >>

STSZ_L == << <<"size", "I">> >>

CO64_H == << <<"version", "B">>, <<"flags", "3s">>, <<"num_entries", "I">> >>

CO64_L == << <<"offset", "Q">> >>

\* The class attribute L = None of DecodedLeafAtom; every subclass sets H.
NoSchema == <<>>

ContainerClass(aid) == [base |-> "ContainerAtom", AID |-> aid, H |-> NoSchema, L |-> NoSchema]

LeafClass(aid) == [base |-> "LeafAtom", AID |-> aid, H |-> NoSchema, L |-> NoSchema]

DecodedClass(aid, H, L) == [base |-> "DecodedLeafAtom", AID |-> aid, H |-> H, L |-> L]

\* The class LeafAtom itself, which has no AID.
LeafAtom == LeafClass(NoneVal)

\* Atom.all_atoms(): every subclass; those that have an AID.
AllAtoms == {
    ContainerClass(AID_MOOV), DecodedClass(AID_MVHD, MVHD_H, NoSchema),
    ContainerClass(AID_TRAK), DecodedClass(AID_TKHD, TKHD_H, NoSchema),
    ContainerClass(AID_EDTS), DecodedClass(AID_ELST, ELST_H, ELST_L),
    ContainerClass(AID_TREF), LeafClass(AID_TMCD),
    ContainerClass(AID_MDIA), DecodedClass(AID_MDHD, MDHD_H, NoSchema),
    LeafClass(AID_HDLR), ContainerClass(AID_MINF), LeafClass(AID_VMHD),
    LeafClass(AID_SMHD), ContainerClass(AID_GMHD), LeafClass(AID_GMIN),
    LeafClass(AID_TEXT), ContainerClass(AID_DINF), LeafClass(AID_DREF),
    ContainerClass(AID_STBL), LeafClass(AID_STSD), LeafClass(AID_SKIP),
    DecodedClass(AID_STTS, STTS_H, STTS_L), DecodedClass(AID_STSC, STSC_H, STSC_L),
    DecodedClass(AID_STSZ, STSZ_H, STSZ_L), DecodedClass(AID_CO64, CO64_H, CO64_L),
    ContainerClass(AID_META), LeafClass(AID_KEYS), LeafClass(AID_ILST) }

\* The dictionary Atom.__atoms once for_aid has filled it.
Registered == {c.AID : c \in AllAtoms}

\* Atom.for_aid(aid, fallback): the class registered for aid; with fallback
\* the class LeafAtom for an unregistered aid, without it a KeyError.
ForAid(aid, fallback) ==
    IF aid \in Registered
    THEN [err |-> "none", acls |-> CHOOSE c \in AllAtoms : c.AID = aid]
    ELSE IF fallback
         THEN [err |-> "none", acls |-> LeafAtom]
         ELSE [err |-> "KeyError", acls |-> LeafAtom]

\* The for_aid(aid) of Atom.for_buf and ContainerAtom.__init__: both call it
\* with one argument, so fallback keeps its default, False.
ForAidOfParse(aid) == ForAid(aid, FALSE)

---------------------------------------------------------------------------
(* Schema codec *)

\* struct.Struct(...).size of a schema: no padding with '>'.
RECURSIVE StructSize(_)
StructSize(S) == IF S = <<>> THEN 0 ELSE FmtSize(Head(S)[2]) + StructSize(Tail(S))

\* The offset of field i of a schema inside its struct.
RECURSIVE FieldOfs(_, _)
FieldOfs(S, i) == IF i = 1 THEN 0 ELSE FieldOfs(S, i - 1) + FmtSize(S[i - 1][2])

FieldNames(S) == {S[i][1] : i \in 1..Len(S)}

FieldIdx(S, name) == CHOOSE i \in 1..Len(S) : S[i][1] = name

\* namedtuple(*struct.unpack_from(data, offset)): the record of the named
\* fields of schema S decoded at absolute offset off of B.
UnpackFrom(B, S, off) ==
    [name \in FieldNames(S) |->
        LET i == FieldIdx(S, name)
            f == S[i][2]
            o == off + FieldOfs(S, i)
        IN  IF FmtIsBytes(f) THEN SubSeq(B, o + 1, o + FmtSize(f))
                             ELSE UnpackBE(B, o, FmtSize(f))]

\* An 's' field packs to exactly its size: truncated, or padded with zeros.
PackBytes(b, w) == [i \in 1..w |-> IF i <= Len(b) THEN b[i] ELSE 0]

\* struct.pack(*record) under schema S.
RECURSIVE PackFields(_, _, _)
PackFields(S, rec, i) ==
    IF i > Len(S) THEN <<>>
    ELSE LET f == S[i][2]
             x == rec[S[i][1]]
         IN  (IF FmtIsBytes(f) THEN PackBytes(x, FmtSize(f)) ELSE PackBE(x, FmtSize(f)))
             \o PackFields(S, rec, i + 1)

Pack(S, rec) == PackFields(S, rec, 1)

\* Whether struct.pack accepts the record: every integer field in range.
PackOk(S, rec) ==
    \A i \in 1..Len(S) : FmtIsBytes(S[i][2]) \/ Fits(rec[S[i][1]], FmtSize(S[i][2]))


---------------------------------------------------------------------------
(* Atom tree: parse *)

\* An atom object: its class, the data it was built from, and the attributes
\* its class adds (children of a ContainerAtom; hdr and lst of a
\* DecodedLeafAtom).  An attribute the class does not have is NoneVal.
Node(acls, v, children, hdr, lst) ==
    [cls |-> acls, data |-> v, children |-> children, hdr |-> hdr, lst |-> lst]

NoNode == Node(LeafAtom, [lo |-> 0, hi |-> 0], NoneVal, NoneVal, NoneVal)

Raise(e) == [err |-> e, node |-> NoNode]

Return(node) == [err |-> "none", node |-> node]

\* The list loop of DecodedLeafAtom.__init__: one record per L-struct from
\* absolute offset off while off is before the end of the data.
RECURSIVE UnpackList(_, _, _, _)
UnpackList(B, L, off, end) ==
    IF off < end
    THEN <<UnpackFrom(B, L, off)>> \o UnpackList(B, L, off + StructSize(L), end)
    ELSE <<>>

\* DecodedLeafAtom.__init__(data).  unpack_from raises struct.error when fewer
\* bytes than the struct's size remain at the offset.
DecodedInit(B, acls, v) ==
    LET len  == ViewLen(v)
        hasH == acls.H # NoSchema
        hasL == acls.L # NoSchema
        ofs  == IF hasH THEN 8 + StructSize(acls.H) ELSE 8
        rem  == len - ofs
    IN  IF hasH /\ len < ofs
        THEN Raise("struct.error")
        ELSE IF hasL /\ rem > 0 /\ rem % StructSize(acls.L) # 0
        THEN Raise("struct.error")
        ELSE Return(Node(acls, v, NoneVal,
                 IF hasH THEN UnpackFrom(B, acls.H, v.lo + 8) ELSE NoneVal,
                 IF hasL THEN UnpackList(B, acls.L, v.lo + ofs, v.hi) ELSE NoneVal))

\* The check after the loop, with only an overrun detected.
LeftOverPastEnd(o, l) == o > l

\* The check after the while loop of ContainerAtom.__init__: o is the offset
\* the scan stopped at, l the length of the container's data.
LeftOver(o, l) == o # l

RECURSIVE BuildAtom(_, _, _)
RECURSIVE ParseChildren(_, _, _, _)

\* The while loop of ContainerAtom.__init__ from offset o, with the children
\* built so far, and the check after it.  A child whose length field is 0 and
\* whose class accepts the empty slice leaves o where it was: the loop then
\* repeats the same iteration without end ("loops").
ParseChildren(B, v, o, children) ==
    LET l == ViewLen(v) IN
    IF o <= l - 8
    THEN LET alen  == UnpackBE(B, v.lo + o, 4)
             aid   == UnpackBE(B, v.lo + o + 4, 4)
             c     == ForAidOfParse(aid)
             ainst == BuildAtom(B, c.acls, Slice(v, o, o + alen))
         IN  IF c.err # "none" THEN [err |-> c.err, children |-> children]
             ELSE IF ainst.err # "none" THEN [err |-> ainst.err, children |-> children]
             ELSE IF alen = 0 THEN [err |-> "loops", children |-> children]
             ELSE ParseChildren(B, v, o + alen, Append(children, ainst.node))
    ELSE IF LeftOver(o, l)
         THEN [err |-> "ValueError", children |-> children]
         ELSE [err |-> "none", children |-> children]

\* ContainerAtom.__init__(data)
ContainerInit(B, acls, v) ==
    LET r == ParseChildren(B, v, 8, <<>>)
    IN  IF r.err # "none" THEN Raise(r.err)
        ELSE Return(Node(acls, v, r.children, NoneVal, NoneVal))

\* LeafAtom(data): Atom.__init__ alone.
LeafInit(B, acls, v) == Return(Node(acls, v, NoneVal, NoneVal, NoneVal))

\* acls(data): the constructor of the class.
BuildAtom(B, acls, v) ==
    CASE acls.base = "ContainerAtom"   -> ContainerInit(B, acls, v)
      [] acls.base = "DecodedLeafAtom" -> DecodedInit(B, acls, v)
      [] acls.base = "LeafAtom"        -> LeafInit(B, acls, v)

\* Atom.for_buf(buf), buf a view of B.
ForBuf(B, v) ==
    IF ViewLen(v) < 8
    THEN Raise("ValueError")
    ELSE LET alen == UnpackBE(B, v.lo, 4)
             aid  == UnpackBE(B, v.lo + 4, 4)
             c    == ForAidOfParse(aid)
         IN  IF c.err # "none" THEN Raise(c.err)
             ELSE BuildAtom(B, c.acls, Slice(v, 0, alen))

---------------------------------------------------------------------------
(* Atom tree: serialize *)

\* The length and type code every serialize but Atom's own starts with.
AtomHeader(length, aid) == PackBE(length, 4) \o PackBE(aid, 4)

RECURSIVE PackList(_, _)
PackList(L, lst) ==
    IF lst = <<>> THEN <<>> ELSE Pack(L, Head(lst)) \o PackList(L, Tail(lst))

\* DecodedLeafAtom.serialize()
DecodedSerialize(node) ==
    LET hs == IF node.cls.H # NoSchema THEN Pack(node.cls.H, node.hdr) ELSE <<>>
        ls == IF node.cls.L # NoSchema THEN PackList(node.cls.L, node.lst) ELSE <<>>
    IN  AtomHeader(8 + Len(hs) + Len(ls), node.cls.AID) \o hs \o ls

RECURSIVE Serialize(_, _)
RECURSIVE SerializeAll(_, _)

\* [c.serialize() for c in children], joined.
SerializeAll(B, children) ==
    IF children = <<>> THEN <<>>
    ELSE Serialize(B, Head(children)) \o SerializeAll(B, Tail(children))

\* ContainerAtom.serialize()
ContainerSerialize(B, node) ==
    LET cb == SerializeAll(B, node.children)
    IN  AtomHeader(8 + Len(cb), node.cls.AID) \o cb

\* node.serialize(), dispatched on the class; Atom.serialize returns the data.
Serialize(B, node) ==
    CASE node.cls.base = "ContainerAtom"   -> ContainerSerialize(B, node)
      [] node.cls.base = "DecodedLeafAtom" -> DecodedSerialize(node)
      [] node.cls.base = "LeafAtom"        -> ViewBytes(B, node.data)

\* Whether every struct.pack of node.serialize() accepts its arguments.
RECURSIVE SerializeOk(_)
SerializeOk(node) ==
    CASE node.cls.base = "ContainerAtom" ->
            \A i \in 1..Len(node.children) : SerializeOk(node.children[i])
      [] node.cls.base = "DecodedLeafAtom" ->
            /\ node.cls.H # NoSchema => PackOk(node.cls.H, node.hdr)
            /\ node.cls.L # NoSchema =>
                   \A i \in 1..Len(node.lst) : PackOk(node.cls.L, node.lst[i])
      [] node.cls.base = "LeafAtom" -> TRUE

---------------------------------------------------------------------------
(* Input buffers: atoms as the format lays them out, for Init to draw from *)

MaxEntries == 2   \* list entries of a table atom handed to the codec
MaxExtra   == 1   \* bytes in an atom's body beyond what its class decodes
MaxDepth   == 2   \* containers wrapped around the atom handed to the codec
MaxTrail   == 1   \* bytes in the buffer after the root atom
MaxCut     == 1   \* bytes missing at the end of the buffer

\* An atom: 4-byte length, 4-byte type code, body.
AtomBytes(aid, body) == AtomHeader(8 + Len(body), aid) \o body

\* k bytes of filler, all of value b.
Fill(k, b) == [i \in 1..k |-> b]

\* A type code no class declares: 'free'.
AID_FREE == UnpackBE(<<102, 114, 101, 101>>, 0, 4)

\* The 'text' atom of a generic media header; AtomTEXT declares 0x74657374.
AID_TEXT_TAG == UnpackBE(<<116, 101, 120, 116>>, 0, 4)

MvhdRec(duration) ==
    [version |-> 0, flags |-> <<0, 0, 1>>, creation_time |-> 11,
     modification_time |-> 12, timescale |-> 24, duration |-> duration,
     preferred_rate |-> 65536, preferred_volume |-> 256,
     reserved |-> Fill(10, 0), matrix |-> Fill(36, 3), preview_time |-> 0,
     preview_duration |-> 0, poster_time |-> 0, selection_time |-> 0,
     selection_duration |-> 0, current_time |-> 0, next_track_id |-> 4]

TkhdRec(track_id, duration) ==
    [version |-> 0, flags |-> <<0, 0, 15>>, creation_time |-> 11,
     modification_time |-> 12, track_id |-> track_id, reserved1 |-> Fill(4, 0),
     duration |-> duration, reserved2 |-> Fill(8, 0), layer |-> 0,
     alternate_group |-> 0, volume |-> 0, reserved3 |-> 0,
     matrix |-> Fill(36, 5), track_width |-> 1920, track_height |-> 1080]

MdhdRec(duration) ==
    [version |-> 0, flags |-> <<0, 0, 0>>, creation_time |-> 11,
     modification_time |-> 12, timescale |-> 24, duration |-> duration,
     language |-> 0, quality |-> 0]

TableHdr(num_entries) == [version |-> 0, flags |-> <<0, 0, 0>>, num_entries |-> num_entries]

StszHdr(sample_size, num_entries) ==
    [version |-> 0, flags |-> <<0, 0, 0>>, sample_size |-> sample_size,
     num_entries |-> num_entries]

MvhdBytes(duration) == AtomBytes(AID_MVHD, Pack(MVHD_H, MvhdRec(duration)))

TkhdBytes(track_id, duration) == AtomBytes(AID_TKHD, Pack(TKHD_H, TkhdRec(track_id, duration)))

MdhdBytes(duration) == AtomBytes(AID_MDHD, Pack(MDHD_H, MdhdRec(duration)))

ElstBytes(num_entries, lst) ==
    AtomBytes(AID_ELST, Pack(ELST_H, TableHdr(num_entries)) \o PackList(ELST_L, lst))

SttsBytes(num_entries, lst) ==
    AtomBytes(AID_STTS, Pack(STTS_H, TableHdr(num_entries)) \o PackList(STTS_L, lst))

StscBytes(num_entries, lst) ==
    AtomBytes(AID_STSC, Pack(STSC_H, TableHdr(num_entries)) \o PackList(STSC_L, lst))

StszBytes(sample_size, num_entries, lst) ==
    AtomBytes(AID_STSZ, Pack(STSZ_H, StszHdr(sample_size, num_entries)) \o PackList(STSZ_L, lst))

Co64Bytes(num_entries, lst) ==
    AtomBytes(AID_CO64, Pack(CO64_H, TableHdr(num_entries)) \o PackList(CO64_L, lst))

\* The atom a codec buffer is built around.
Shapes == {"skip", "moov", "mvhd", "tkhd", "mdhd", "elst", "stts", "stsc",
           "stsz", "co64", "free", "tiny", "zero"}

ElstEntry == [track_duration |-> 6, media_time |-> 0, media_rate |-> 65536]

SttsEntry == [sample_count |-> 3, sample_duration |-> 2]

StscEntry == [first_chunk |-> 1, samples_per_chunk |-> 1, sample_description_id |-> 1]

StszEntry == [size |-> 5]

Co64Entry == [offset |-> 8192]

\* The atom of the given shape with e list entries (a table atom) or e body
\* bytes (an opaque one), followed inside its body by x more bytes.  "tiny"
\* is zero bytes alone, "zero" a 'skip' header that declares length 0 and
\* the bytes after it.
Inner(shape, e, x) ==
    CASE shape = "skip" -> AtomBytes(AID_SKIP, Fill(e, 7) \o Fill(x, 9))
      [] shape = "free" -> AtomBytes(AID_FREE, Fill(e, 7) \o Fill(x, 9))
      [] shape = "moov" -> AtomBytes(AID_MOOV, Fill(x, 9))
      [] shape = "tiny" -> Fill(4 * e + x, 0)
      [] shape = "zero" -> PackBE(0, 4) \o PackBE(AID_SKIP, 4) \o Fill(4 * e + x, 7)
      [] shape = "mvhd" -> AtomBytes(AID_MVHD, Pack(MVHD_H, MvhdRec(6)) \o Fill(x, 9))
      [] shape = "tkhd" -> AtomBytes(AID_TKHD, Pack(TKHD_H, TkhdRec(1, 6)) \o Fill(x, 9))
      [] shape = "mdhd" -> AtomBytes(AID_MDHD, Pack(MDHD_H, MdhdRec(6)) \o Fill(x, 9))
      [] shape = "elst" -> AtomBytes(AID_ELST, Pack(ELST_H, TableHdr(e))
                               \o PackList(ELST_L, [i \in 1..e |-> ElstEntry]) \o Fill(x, 9))
      [] shape = "stts" -> AtomBytes(AID_STTS, Pack(STTS_H, TableHdr(e))
                               \o PackList(STTS_L, [i \in 1..e |-> SttsEntry]) \o Fill(x, 9))
      [] shape = "stsc" -> AtomBytes(AID_STSC, Pack(STSC_H, TableHdr(e))
                               \o PackList(STSC_L, [i \in 1..e |-> StscEntry]) \o Fill(x, 9))
      [] shape = "stsz" -> AtomBytes(AID_STSZ, Pack(STSZ_H, StszHdr(0, e))
                               \o PackList(STSZ_L, [i \in 1..e |-> StszEntry]) \o Fill(x, 9))
      [] shape = "co64" -> AtomBytes(AID_CO64, Pack(CO64_H, TableHdr(e))
                               \o PackList(CO64_L, [i \in 1..e |-> Co64Entry]) \o Fill(x, 9))

\* The container wrapped around at depth d.
WrapAid(d) == IF d % 2 = 1 THEN AID_TRAK ELSE AID_MOOV

\* inner as the second child of d nested containers.
RECURSIVE Wrap(_, _)
Wrap(d, inner) ==
    IF d = 0 THEN inner
    ELSE AtomBytes(WrapAid(d), AtomBytes(AID_SKIP, <<d>>) \o Wrap(d - 1, inner))

\* The bytes b of an atom with its length field raised by over: the atom of a
\* buffer that ends over bytes early.
Declare(b, over) ==
    IF Len(b) < 8 THEN b
    ELSE PackBE(UnpackBE(b, 0, 4) + over, 4) \o SubSeq(b, 5, Len(b))

\* The buffers Atom.for_buf is handed: the atom inside d containers, the
\* innermost atom declaring cut bytes more than it has, the outermost over
\* bytes more, and trail bytes after it.
CodecBufs ==
    {Declare(Wrap(d, Declare(Inner(shape, e, x), cut)), over) \o Fill(trail, 0) :
        shape \in Shapes, e \in 0..MaxEntries, x \in 0..MaxExtra, d \in 0..MaxDepth,
        trail \in 0..MaxTrail, over \in 0..MaxCut, cut \in 0..MaxCut}

---------------------------------------------------------------------------
(* Atom tree: positions, attribute updates *)

\* The node at position pos of a tree: pos is the sequence of child indices
\* that leads to it from the root.
RECURSIVE NodeAt(_, _)
NodeAt(node, pos) ==
    IF pos = <<>> THEN node ELSE NodeAt(node.children[Head(pos)], Tail(pos))

\* The tree with the node at position pos replaced.
RECURSIVE SetAt(_, _, _)
SetAt(node, pos, new) ==
    IF pos = <<>> THEN new
    ELSE [node EXCEPT !.children[Head(pos)] = SetAt(@, Tail(pos), new)]

\* All positions of a tree.
RECURSIVE Positions(_)
Positions(node) ==
    {<<>>} \cup
    (IF node.cls.base = "ContainerAtom"
     THEN UNION {{<<i>> \o p : p \in Positions(node.children[i])} :
                    i \in 1..Len(node.children)}
     ELSE {})

\* list.remove of the element at index i (the object is in the list once).
RemoveIdx(s, i) == SubSeq(s, 1, i - 1) \o SubSeq(s, i + 1, Len(s))

\* update() that drops the result of _replace: the header stays as parsed.
UpdateDropped(node, kwargs) == node

\* DecodedLeafAtom.update(**kwargs): hdr._replace of the named fields.
Update(node, kwargs) ==
    [node EXCEPT !.hdr = [f \in DOMAIN node.hdr |->
                            IF f \in DOMAIN kwargs THEN kwargs[f] ELSE node.hdr[f]]]

\* node.lst = lst
SetLst(node, lst) == [node EXCEPT !.lst = lst]

\* node.lst[i] = node.lst[i]._replace(**kwargs)
ReplaceEntry(node, i, kwargs) ==
    [node EXCEPT !.lst[i] = [f \in DOMAIN @ |->
                                IF f \in DOMAIN kwargs THEN kwargs[f] ELSE @[f]]]

\* node.children.remove(node.children[i])
RemoveChild(node, i) == [node EXCEPT !.children = RemoveIdx(@, i)]

---------------------------------------------------------------------------
(* The codec on its own: Atom.for_buf, edits of the tree, serialize *)

MaxField == 1   \* values an edit writes into a header field

\* No reader, no timelapser: the variables of main() at rest.
NoView == [lo |-> 0, hi |-> 0]

NoResult == Raise("none")

NoCall == [offset |-> NoneVal, length |-> 0, cursor |-> 0, raised |-> FALSE, rv |-> NoneVal]

NoDst == [exists |-> FALSE, writes |-> <<>>]

ReaderAtRest ==
    /\ md_ofs = NoneVal
    /\ md_blk = NoView
    /\ md_atom = NoNode
    /\ trk_vid_idx = NoneVal
    /\ trk_aud_idx = NoneVal
    /\ trk_tim_idx = NoneVal
    /\ frames = <<>>

LapserAtRest ==
    /\ n = 1
    /\ start = 0
    /\ frames_data = <<>>
    /\ frames_offset = <<>>
    /\ write_list = <<>>
    /\ write_offset = 0
    /\ header = <<>>
    /\ dst = NoDst

\* No constructor of a container is running.
NoScan ==
    /\ scan_o = NoneVal
    /\ scan_children = <<>>

CodecAtRest ==
    /\ buf = <<>>
    /\ atom = NoResult
    /\ ser = <<>>
    /\ NoScan

InitAtom ==
    /\ buf \in CodecBufs
    /\ atom = NoResult
    /\ ser = <<>>
    /\ NoScan
    /\ pc = "for_buf"
    /\ err = "none"
    /\ mv = <<>>
    /\ ReaderAtRest
    /\ LapserAtRest
    /\ call = NoCall

\* atom = Atom.for_buf(buf).  A call whose child scan repeats without end
\* does not return: there is no step.
ForBufStep ==
    /\ pc = "for_buf"
    /\ \E r \in {ForBuf(buf, WholeView(buf))} :
         /\ r.err # "loops"
         /\ atom' = r
         /\ err' = r.err
         /\ pc' = IF r.err = "none" THEN "parsed" ELSE "raised"
    /\ UNCHANGED <<buf, ser, scan_o, scan_children, readerVars, lapserVars, call>>

\* One edit of the parsed tree, of the kinds build_metadata makes: update()
\* of a header field, assignment of lst, children.remove().
MutateAtom ==
    /\ pc = "parsed"
    /\ \E pos \in Positions(atom.node) :
         \E x \in {NodeAt(atom.node, pos)} :
         \/ /\ x.cls.base = "DecodedLeafAtom"
            /\ "duration" \in DOMAIN x.hdr
            /\ \E d \in 0..MaxField :
                 atom' = [atom EXCEPT !.node = SetAt(@, pos, Update(x, [duration |-> d]))]
         \/ /\ x.cls.base = "DecodedLeafAtom"
            /\ x.cls.L # NoSchema
            /\ \E lst \in {<<>>} \cup {x.lst \o <<x.lst[i]>> : i \in 1..Len(x.lst)} :
                 atom' = [atom EXCEPT !.node = SetAt(@, pos, SetLst(x, lst))]
         \/ /\ x.cls.base = "ContainerAtom"
            /\ \E i \in 1..Len(x.children) :
                 atom' = [atom EXCEPT !.node = SetAt(@, pos, RemoveChild(x, i))]
    /\ pc' = "mutated"
    /\ UNCHANGED <<buf, ser, err, scan_o, scan_children, readerVars, lapserVars, call>>

\* ser = atom.serialize()
SerializeStep ==
    /\ pc \in {"parsed", "mutated"}
    /\ IF SerializeOk(atom.node)
       THEN /\ ser' = Serialize(buf, atom.node)
            /\ pc' = IF pc = "parsed" THEN "serialized" ELSE "reserialized"
            /\ err' = err
       ELSE /\ ser' = ser
            /\ pc' = "raised"
            /\ err' = "struct.error"
    /\ UNCHANGED <<buf, atom, scan_o, scan_children, readerVars, lapserVars, call>>

NextAtom == ForBufStep \/ MutateAtom \/ SerializeStep

SpecAtom == InitAtom /\ [][NextAtom]_vars

---------------------------------------------------------------------------
(* Atom.for_buf with the child scan of the root taken one iteration at a time *)

MaxScan == 3   \* children of the root up to which the scan is followed

\* buf[0:alen]: the slice the root atom is built from.
ScanView == Slice(WholeView(buf), 0, UnpackBE(buf, 0, 4))

\* for_buf returns r or raises r.err; the constructor's frame is gone.
ScanReturn(r) ==
    /\ pc' = IF r.err = "none" THEN "parsed" ELSE "raised"
    /\ err' = r.err
    /\ atom' = r
    /\ scan_o' = NoneVal
    /\ scan_children' = <<>>

\* Atom.for_buf(buf) up to the while loop of the root's constructor.  A root
\* that is no container is built in this step.
ScanEnter ==
    /\ pc = "for_buf"
    /\ IF Len(buf) < 8 THEN ScanReturn(Raise("ValueError"))
       ELSE \E c \in {ForAidOfParse(UnpackBE(buf, 4, 4))} :
            IF c.err # "none" THEN ScanReturn(Raise(c.err))
            ELSE IF c.acls.base # "ContainerAtom"
            THEN ScanReturn(BuildAtom(buf, c.acls, ScanView))
            ELSE /\ pc' = "scan"
                 /\ scan_o' = 8
                 /\ scan_children' = <<>>
                 /\ UNCHANGED <<atom, err>>
    /\ UNCHANGED <<buf, ser, readerVars, lapserVars, call>>

\* One iteration of the while loop: the child at scan_o is built, appended,
\* and scan_o moves on by the length the child declares.  A child whose own
\* constructor does not return gives no step.
ScanChild ==
    /\ pc = "scan"
    /\ scan_o <= ViewLen(ScanView) - 8
    /\ Len(scan_children) < MaxScan
    /\ \E alen \in {UnpackBE(buf, ScanView.lo + scan_o, 4)},
          c \in {ForAidOfParse(UnpackBE(buf, ScanView.lo + scan_o + 4, 4))} :
         IF c.err # "none" THEN ScanReturn(Raise(c.err))
         ELSE \E ainst \in {BuildAtom(buf, c.acls, Slice(ScanView, scan_o, scan_o + alen))} :
              /\ ainst.err # "loops"
              /\ IF ainst.err # "none" THEN ScanReturn(Raise(ainst.err))
                 ELSE /\ scan_children' = Append(scan_children, ainst.node)
                      /\ scan_o' = scan_o + alen
                      /\ UNCHANGED <<pc, err, atom>>
    /\ UNCHANGED <<buf, ser, readerVars, lapserVars, call>>

\* The loop is left and the check after it made.
ScanExit ==
    /\ pc = "scan"
    /\ scan_o > ViewLen(ScanView) - 8
    /\ IF LeftOver(scan_o, ViewLen(ScanView))
       THEN ScanReturn(Raise("ValueError"))
       ELSE ScanReturn(Return(Node(ForAidOfParse(UnpackBE(buf, 4, 4)).acls, ScanView,
                                   scan_children, NoneVal, NoneVal)))
    /\ UNCHANGED <<buf, ser, readerVars, lapserVars, call>>

NextScan == ScanEnter \/ ScanChild \/ ScanExit

\* The interpreter runs the one thread of the call while it has a step to
\* take; every step changes the position, the offset or the number of
\* children.
SpecScan ==
    InitAtom /\ [][NextScan]_vars /\ WF_<<pc, scan_o, Len(scan_children)>>(NextScan)

---------------------------------------------------------------------------
(* Path queries *)

\* One component of a key: 'xxxx' or 'xxxx:idx'.
Seg(aid) == [aid |-> aid, idx |-> NoneVal]

SegI(aid, idx) == [aid |-> aid, idx |-> idx]

\* m = [c for c in children if c.AID == key], as the indices of the matches.
RECURSIVE Matches(_, _, _)
Matches(children, key, i) ==
    IF i > Len(children) THEN <<>>
    ELSE (IF children[i].cls.AID = key THEN <<i>> ELSE <<>>) \o Matches(children, key, i + 1)

\* ContainerAtom.__getitem__(key), key given as its components: the position
\* of the result below node.  Subscripting an atom that is no container
\* raises TypeError.
RECURSIVE Locate(_, _)
Locate(node, path) ==
    IF path = <<>> THEN [err |-> "none", pos |-> <<>>]
    ELSE IF node.cls.base # "ContainerAtom" THEN [err |-> "TypeError", pos |-> <<>>]
    ELSE LET key == Head(path).aid
             idx == Head(path).idx
             m   == Matches(node.children, key, 1)
         IN  IF Len(m) = 0 THEN [err |-> "KeyError", pos |-> <<>>]
             ELSE IF Len(m) > 1 /\ idx = NoneVal THEN [err |-> "KeyError", pos |-> <<>>]
             ELSE IF idx # NoneVal /\ Len(m) <= idx THEN [err |-> "KeyError", pos |-> <<>>]
             ELSE LET i  == m[(IF idx = NoneVal THEN 0 ELSE idx) + 1]
                      rv == Locate(node.children[i], Tail(path))
                  IN  [err |-> rv.err, pos |-> <<i>> \o rv.pos]

\* ContainerAtom.__contains__(key)
Contains(node, key) == Len(Matches(node.children, key, 1)) > 0

---------------------------------------------------------------------------
(* Source files for Init to draw from *)

MaxFrames == 4   \* video frames of a source file
MaxStride == 3   \* generate's n
MaxStart  == 2   \* generate's start

PAGE == 4096

TC_OFS == 4096   \* 0x1000

\* The 16 bytes at offset 0 that point to the metadata block at md.
Pointer(layout, md) ==
    CASE layout = "A" -> PackBE(8, 4) \o PackBE(K_WIDE, 4) \o PackBE(md - 8, 4) \o PackBE(K_MDAT, 4)
      [] layout = "B" -> PackBE(1, 4) \o PackBE(K_MDAT, 4) \o PackBE(md, 8)
      [] OTHER        -> Fill(16, 0)

\* The byte length of source frame i (from 0): a few bytes, none, over a page.
SrcFrameSize(i) == <<5, 0, PAGE + 1, 3>>[(i % 4) + 1]

\* The offset of source frame i: the frames follow the timecode sample.
RECURSIVE SrcFrameOfs(_)
SrcFrameOfs(i) == IF i = 0 THEN TC_OFS + 4 ELSE SrcFrameOfs(i - 1) + SrcFrameSize(i - 1)

\* The marker atom below 'minf' that tells the kind of a track: video,
\* audio, timecode, or none for a track parse() passes over.
Marker(kind) ==
    CASE kind = "V" -> AtomBytes(AID_VMHD, Fill(4, 0))
      [] kind = "A" -> AtomBytes(AID_SMHD, Fill(4, 0))
      [] kind = "T" -> AtomBytes(AID_GMHD, AtomBytes(AID_GMIN, Fill(4, 0)))
      [] kind = "N" -> <<>>

\* A 'trak' atom of the given kind with the given duration and sample tables.
Trak(kind, id, dur, stts, stsz, co64) ==
    AtomBytes(AID_TRAK,
        TkhdBytes(id, dur)
        \o AtomBytes(AID_EDTS,
               ElstBytes(1, <<[track_duration |-> dur, media_time |-> 0, media_rate |-> 65536]>>))
        \o AtomBytes(AID_MDIA,
               MdhdBytes(dur)
               \o AtomBytes(AID_HDLR, Fill(4, 0))
               \o AtomBytes(AID_MINF,
                      Marker(kind)
                      \o AtomBytes(AID_STBL,
                             AtomBytes(AID_STSD, Fill(4, 0))
                             \o stts
                             \o StscBytes(1, <<StscEntry>>)
                             \o stsz \o co64))))

\* The track of the given kind of a source with N video frames; the video
\* track's time-to-sample table has sttsN entries, the timecode sample is
\* at tc.
SrcTrak(kind, id, N, sttsN, tc) ==
    CASE kind = "V" ->
            Trak("V", id, 40 + N,
                 SttsBytes(sttsN, [i \in 1..sttsN |->
                     [sample_count |-> IF i = 1 THEN N ELSE 0, sample_duration |-> 1]]),
                 StszBytes(0, N, [i \in 1..N |-> [size |-> SrcFrameSize(i - 1)]]),
                 Co64Bytes(N, [i \in 1..N |-> [offset |-> SrcFrameOfs(i - 1)]]))
      [] kind = "T" ->
            Trak("T", id, 40 + N,
                 SttsBytes(1, <<[sample_count |-> 1, sample_duration |-> 40 + N]>>),
                 StszBytes(4, 1, <<>>),
                 Co64Bytes(1, <<[offset |-> tc]>>))
      [] kind = "A" ->
            Trak("A", id, 50 + N,
                 SttsBytes(1, <<[sample_count |-> 2, sample_duration |-> 1024]>>),
                 StszBytes(2, 2, <<>>),
                 Co64Bytes(1, <<[offset |-> 2 * PAGE]>>))
      [] kind = "N" ->
            Trak("N", id, 60 + N,
                 SttsBytes(1, <<[sample_count |-> 1, sample_duration |-> 60 + N]>>),
                 StszBytes(1, 1, <<>>),
                 Co64Bytes(1, <<[offset |-> 2 * PAGE]>>))

\* The metadata block: 'moov' with the movie header and the tracks in order.
SrcMoov(order, N, sttsN, tc) ==
    AtomBytes(AID_MOOV,
        MvhdBytes(40 + N)
        \o Join([i \in 1..Len(order) |-> SrcTrak(order[i], i, N, sttsN, tc)]))

\* The frame payloads, one after the other; frame i is filled with 10 + i.
RECURSIVE SrcFrameBytes(_, _)
SrcFrameBytes(i, N) ==
    IF i >= N THEN <<>> ELSE Fill(SrcFrameSize(i), 10 + i) \o SrcFrameBytes(i + 1, N)

\* A source file: pointer, padding, timecode sample at 0x1000, frames,
\* metadata block to the end of the file.
SrcFile(layout, order, N, sttsN, tc) ==
    Pointer(layout, SrcFrameOfs(N))
    \o Fill(TC_OFS - 16, 0) \o <<1, 2, 3, 4>>
    \o SrcFrameBytes(0, N)
    \o SrcMoov(order, N, sttsN, tc)

\* A file that holds the pointer and the metadata block alone: the sample
\* tables point past its end.
ShortFile(layout, order, N) == Pointer(layout, 16) \o SrcMoov(order, N, 1, TC_OFS)

\* Track orders of a well-formed source: video, timecode, optional audio.
GoodOrders == {<<"V", "T">>, <<"T", "V">>, <<"A", "V", "T">>, <<"V", "A", "T">>,
               <<"V", "T", "A">>}

\* Track orders BrawReader.parse refuses.
BadOrders == {<<"V">>, <<"T">>, <<"V", "V", "T">>, <<"V", "T", "T">>,
              <<"A", "V", "A", "T">>}

SourceFiles ==
    {SrcFile(layout, order, N, 1, TC_OFS) :
        layout \in {"A", "B"}, order \in GoodOrders, N \in 0..MaxFrames}
    \cup {SrcFile("B", <<"V", "T">>, MaxFrames, 2, TC_OFS)}
    \cup {SrcFile("B", <<"V", "T">>, MaxFrames, 1, 2 * TC_OFS)}
    \cup {SrcFile("bad", <<"V", "T">>, MaxFrames, 1, TC_OFS)}
    \cup {SrcFile("B", order, MaxFrames, 1, TC_OFS) : order \in BadOrders}
    \cup {SrcFile("B", <<"N", "V", "T">>, MaxFrames, 1, TC_OFS)}
    \cup {ShortFile(layout, <<"V", "A", "T">>, MaxFrames) : layout \in {"A", "B"}}

---------------------------------------------------------------------------
(* BrawReader *)

NoTracks == [vid |-> -1, aud |-> -1, tim |-> -1]

\* The loop "for c in self.md_atom.children" of BrawReader.parse from child i,
\* with the running track index idx and the indices found so far.
\* The track loop with a later track of a kind replacing an earlier one.
RECURSIVE IdentifyTracksLastWins(_, _, _, _)
IdentifyTracksLastWins(children, i, idx, t) ==
    IF i > Len(children) THEN [err |-> "none", t |-> t]
    ELSE LET c   == children[i]
             loc == Locate(c, <<Seg(AID_MDIA), Seg(AID_MINF)>>)
         IN
         IF c.cls.AID # AID_TRAK THEN IdentifyTracksLastWins(children, i + 1, idx, t)
         ELSE IF loc.err # "none" THEN IdentifyTracksLastWins(children, i + 1, idx + 1, t)
         ELSE LET minf == NodeAt(c, loc.pos) IN
              IF Contains(minf, AID_VMHD)
              THEN IdentifyTracksLastWins(children, i + 1, idx + 1, [t EXCEPT !.vid = idx])
              ELSE IF Contains(minf, AID_SMHD)
              THEN IdentifyTracksLastWins(children, i + 1, idx + 1, [t EXCEPT !.aud = idx])
              ELSE IF Contains(minf, AID_GMHD)
              THEN IdentifyTracksLastWins(children, i + 1, idx + 1, [t EXCEPT !.tim = idx])
              ELSE IdentifyTracksLastWins(children, i + 1, idx + 1, t)

RECURSIVE IdentifyTracks(_, _, _, _)
IdentifyTracks(children, i, idx, t) ==
    IF i > Len(children) THEN [err |-> "none", t |-> t]
    ELSE LET c   == children[i]
             loc == Locate(c, <<Seg(AID_MDIA), Seg(AID_MINF)>>)
         IN
         IF c.cls.AID # AID_TRAK THEN IdentifyTracks(children, i + 1, idx, t)
         ELSE IF loc.err # "none" THEN IdentifyTracks(children, i + 1, idx + 1, t)
         ELSE LET minf == NodeAt(c, loc.pos) IN
              IF Contains(minf, AID_VMHD)
              THEN IF t.vid = -1
                   THEN IdentifyTracks(children, i + 1, idx + 1, [t EXCEPT !.vid = idx])
                   ELSE [err |-> "RuntimeError", t |-> t]
              ELSE IF Contains(minf, AID_SMHD)
              THEN IF t.aud = -1
                   THEN IdentifyTracks(children, i + 1, idx + 1, [t EXCEPT !.aud = idx])
                   ELSE [err |-> "RuntimeError", t |-> t]
              ELSE IF Contains(minf, AID_GMHD)
              THEN IF t.tim = -1
                   THEN IdentifyTracks(children, i + 1, idx + 1, [t EXCEPT !.tim = idx])
                   ELSE [err |-> "RuntimeError", t |-> t]
              ELSE IdentifyTracks(children, i + 1, idx + 1, t)

\* 'trak:%d/mdia/minf/stbl/<table>' % idx
TablePath(idx, table) ==
    <<SegI(AID_TRAK, idx), Seg(AID_MDIA), Seg(AID_MINF), Seg(AID_STBL), Seg(table)>>

\* 'mdia/minf/stbl/<table>'
StblPath(table) == <<Seg(AID_MDIA), Seg(AID_MINF), Seg(AID_STBL), Seg(table)>>

\* The metadata pointer of BrawReader.parse: the offset of the metadata block
\* or NoneVal for an unknown format.  mp[0..3] are the four be32 of mv[0:16];
\* (mp[2] << 32) | mp[3] is the be64 at offset 8.
MetadataPointer(B) ==
    LET mp == [i \in 0..3 |-> UnpackBE(B, 4 * i, 4)] IN
    IF mp[0] = 8 /\ mp[1] = K_WIDE /\ mp[3] = K_MDAT THEN mp[2] + 8
    ELSE IF mp[0] = 1 /\ mp[1] = K_MDAT THEN UnpackBE(B, 8, 8)
    ELSE NoneVal

ParseFailed(e) ==
    [err |-> e, md_ofs |-> NoneVal, md_blk |-> NoView, md_atom |-> NoNode,
     t |-> NoTracks, frames |-> <<>>]

\* The end of parse(): the entry counts compared, the frames sliced out of
\* the file.
ParseFrames(B, ofs, blk, root, t, v_stsz, v_co64) ==
    IF v_stsz.hdr.num_entries # v_co64.hdr.num_entries THEN ParseFailed("ValueError") ELSE
    IF v_stsz.hdr.num_entries > Len(v_stsz.lst) \/ v_stsz.hdr.num_entries > Len(v_co64.lst)
    THEN ParseFailed("IndexError") ELSE
    [err |-> "none", md_ofs |-> ofs, md_blk |-> blk, md_atom |-> root, t |-> t,
     frames |-> [i \in 1..v_stsz.hdr.num_entries |->
                    Slice(WholeView(B), v_co64.lst[i].offset,
                          v_co64.lst[i].offset + v_stsz.lst[i].size)]]

\* The two lookups of the video track's sample tables; lsz and lco are their
\* results.
ParseTables(B, ofs, blk, root, t, lsz, lco) ==
    IF lsz.err # "none" THEN ParseFailed(lsz.err) ELSE
    IF lco.err # "none" THEN ParseFailed(lco.err) ELSE
    ParseFrames(B, ofs, blk, root, t, NodeAt(root, lsz.pos), NodeAt(root, lco.pos))

\* parse() after the track loop, whose result is tr.
ParseTracks(B, ofs, blk, root, tr) ==
    IF tr.err # "none" THEN ParseFailed(tr.err) ELSE
    IF tr.t.vid = -1 \/ tr.t.tim = -1 THEN ParseFailed("RuntimeError") ELSE
    ParseTables(B, ofs, blk, root, tr.t,
                Locate(root, TablePath(tr.t.vid, AID_STSZ)),
                Locate(root, TablePath(tr.t.vid, AID_CO64)))

\* parse() after Atom.for_buf(self.md_blk), whose result is md.
ParseBlock(B, ofs, blk, md) ==
    IF md.err # "none" THEN ParseFailed(md.err) ELSE
    IF md.node.cls.base # "ContainerAtom" THEN ParseFailed("AttributeError") ELSE
    ParseTracks(B, ofs, blk, md.node, IdentifyTracks(md.node.children, 1, 0, NoTracks))

\* parse() after the metadata pointer is read as ofs.
ParsePointer(B, ofs) ==
    IF ofs = NoneVal THEN ParseFailed("RuntimeError") ELSE
    ParseBlock(B, ofs, Slice(WholeView(B), ofs, Len(B)),
               ForBuf(B, Slice(WholeView(B), ofs, Len(B))))

\* BrawReader.parse() on the file B: the attributes it sets, or the exception.
BrawParse(B) ==
    IF Len(B) < 16 THEN ParseFailed("struct.error") ELSE ParsePointer(B, MetadataPointer(B))

---------------------------------------------------------------------------
(* BrawTimelapser: chunks *)

\* The objects a chunk of the write list can hold.  The list keeps a
\* reference: the bytearray self.header is read when the chunk is written.
HeaderRef == [kind |-> "bytearray", lo |-> 0, hi |-> 0, bytes |-> <<>>]

ViewRef(v) == [kind |-> "memoryview", lo |-> v.lo, hi |-> v.hi, bytes |-> <<>>]

BytesRef(b) == [kind |-> "bytes", lo |-> 0, hi |-> 0, bytes |-> b]

\* len(data)
DataLen(d) ==
    CASE d.kind = "bytearray"  -> Len(header)
      [] d.kind = "memoryview" -> d.hi - d.lo
      [] d.kind = "bytes"      -> Len(d.bytes)

\* The bytes fh.write(data) writes.
DataBytes(d) ==
    CASE d.kind = "bytearray"  -> header
      [] d.kind = "memoryview" -> SubSeq(mv, d.lo + 1, d.hi)
      [] d.kind = "bytes"      -> d.bytes

\* x + 4095 with the mask left out.
PageAlignUnmasked(x) == x + 4095

\* (x + 4095) & ~4095 for x >= 0: clearing the low 12 bits rounds down to a
\* multiple of 4096.
PageAlign(x) == (x + 4095) - ((x + 4095) % 4096)

\* The test of add_chunk on a requested offset: whether it raises.
OffsetRefused(offset, cursor) == offset > cursor

\* add_chunk that returns the cursor after it advanced past the chunk.
AddChunkReturnsNext(list, cursor, data, offset) ==
    IF offset # NoneVal /\ OffsetRefused(offset, cursor)
    THEN [raised |-> TRUE, write_list |-> list, write_offset |-> cursor, rv |-> NoneVal]
    ELSE LET at == IF offset # NoneVal THEN offset ELSE cursor IN
         [raised |-> FALSE,
          write_list |-> Append(list, [offset |-> at, data |-> data]),
          write_offset |-> at + PageAlign(DataLen(data)),
          rv |-> at + PageAlign(DataLen(data))]

\* BrawTimelapser.add_chunk(data, offset) on the write list and cursor given:
\* the new list and cursor and the return value, or raised.
AddChunk(list, cursor, data, offset) ==
    IF offset # NoneVal /\ OffsetRefused(offset, cursor)
    THEN [raised |-> TRUE, write_list |-> list, write_offset |-> cursor, rv |-> NoneVal]
    ELSE LET at == IF offset # NoneVal THEN offset ELSE cursor IN
         [raised |-> FALSE,
          write_list |-> Append(list, [offset |-> at, data |-> data]),
          write_offset |-> at + PageAlign(DataLen(data)),
          rv |-> at]

\* seq[::step]: the start left out of the slice.
PyStrideFromZero(seq, st, step) ==
    [j \in 1..((Len(seq) + step - 1) \div step) |-> seq[(j - 1) * step + 1]]

\* seq[start::step] for start >= 0 and step > 0.
PyStride(seq, st, step) ==
    LET count == IF st >= Len(seq) THEN 0 ELSE (Len(seq) - st + step - 1) \div step
    IN  [j \in 1..count |-> seq[st + (j - 1) * step + 1]]

\* The loop of handle_frames from frame i on.
RECURSIVE PlaceFrames(_, _, _, _)
PlaceFrames(fd, i, list, cursor) ==
    IF i > Len(fd)
    THEN [write_list |-> list, write_offset |-> cursor, offsets |-> <<>>]
    ELSE LET a == AddChunk(list, cursor, ViewRef(fd[i]), NoneVal)
             r == PlaceFrames(fd, i + 1, a.write_list, a.write_offset)
         IN  [r EXCEPT !.offsets = <<a.rv>> \o @]

---------------------------------------------------------------------------
(* BrawTimelapser: build_metadata *)

\* The object bound to v_trak or t_trak before the audio track is removed
\* from md_atom.children stays the same object: where it was child p, it is
\* child p - 1 afterwards if the removed child came before it.  removed is
\* the index of the removed child, or 0.
TrakRef(p, removed) == IF removed # 0 /\ removed < p THEN p - 1 ELSE p

\* The edits of build_metadata in source order.  base names the object the
\* key is looked up in: md_atom, v_trak or t_trak.
DurationEdits(nf_new) == <<
    [base |-> "md", path |-> <<Seg(AID_MVHD)>>, op |-> "update", arg |-> [duration |-> nf_new]],
    [base |-> "v", path |-> <<Seg(AID_TKHD)>>, op |-> "update", arg |-> [duration |-> nf_new]],
    [base |-> "t", path |-> <<Seg(AID_TKHD)>>, op |-> "update", arg |-> [duration |-> nf_new]],
    [base |-> "v", path |-> <<Seg(AID_EDTS), Seg(AID_ELST)>>, op |-> "lst[0]",
     arg |-> [track_duration |-> nf_new]],
    [base |-> "t", path |-> <<Seg(AID_EDTS), Seg(AID_ELST)>>, op |-> "lst[0]",
     arg |-> [track_duration |-> nf_new]],
    [base |-> "v", path |-> <<Seg(AID_MDIA), Seg(AID_MDHD)>>, op |-> "update",
     arg |-> [duration |-> nf_new]],
    [base |-> "t", path |-> <<Seg(AID_MDIA), Seg(AID_MDHD)>>, op |-> "update",
     arg |-> [duration |-> nf_new]] >>

\* The two stts entries with count and duration exchanged.
SttsEditsSwapped(nf_new) == <<
    [base |-> "v", path |-> StblPath(AID_STTS), op |-> "lst",
     arg |-> <<[sample_count |-> 1, sample_duration |-> nf_new]>>],
    [base |-> "t", path |-> StblPath(AID_STTS), op |-> "lst",
     arg |-> <<[sample_count |-> nf_new, sample_duration |-> 1]>>] >>

SttsEdits(nf_new) == <<
    [base |-> "v", path |-> StblPath(AID_STTS), op |-> "lst",
     arg |-> <<[sample_count |-> nf_new, sample_duration |-> 1]>>],
    [base |-> "t", path |-> StblPath(AID_STTS), op |-> "lst",
     arg |-> <<[sample_count |-> 1, sample_duration |-> nf_new]>>] >>

\* zip(frames_offset, frames_data) stops at the shorter list.
FrameTableEdits(nf_new, offsets, data) ==
    LET z == Min(Len(offsets), Len(data)) IN <<
    [base |-> "v", path |-> StblPath(AID_STSZ), op |-> "update",
     arg |-> [num_entries |-> nf_new, sample_size |-> 0]],
    [base |-> "v", path |-> StblPath(AID_STSZ), op |-> "lst",
     arg |-> [i \in 1..z |-> [size |-> ViewLen(data[i])]]],
    [base |-> "v", path |-> StblPath(AID_CO64), op |-> "update",
     arg |-> [num_entries |-> nf_new]],
    [base |-> "v", path |-> StblPath(AID_CO64), op |-> "lst",
     arg |-> [i \in 1..z |-> [offset |-> offsets[i]]]] >>

\* One edit applied to the tree md; bases gives the position of each base
\* object in md.
ApplyEdit(md, bases, e) ==
    LET base == bases[e.base]
        loc  == Locate(NodeAt(md, base), e.path)
        pos  == base \o loc.pos
        x    == NodeAt(md, pos)
    IN  IF loc.err # "none" THEN Raise(loc.err)
        ELSE IF x.cls.base # "DecodedLeafAtom" THEN Raise("AttributeError")
        ELSE IF e.op = "update" THEN Return(SetAt(md, pos, Update(x, e.arg)))
        ELSE IF e.op = "lst" THEN Return(SetAt(md, pos, SetLst(x, e.arg)))
        ELSE IF x.cls.L = NoSchema THEN Raise("TypeError")
        ELSE IF Len(x.lst) = 0 THEN Raise("IndexError")
        ELSE Return(SetAt(md, pos, ReplaceEntry(x, 1, e.arg)))

RECURSIVE ApplyEdits(_, _, _)
ApplyEdits(md, bases, edits) ==
    IF edits = <<>> THEN Return(md)
    ELSE LET r == ApplyEdit(md, bases, Head(edits)) IN
         IF r.err # "none" THEN r ELSE ApplyEdits(r.node, bases, Tail(edits))

\* All edits of build_metadata, in source order.
MetadataEdits ==
    DurationEdits(Len(frames_offset)) \o SttsEdits(Len(frames_offset))
    \o FrameTableEdits(Len(frames_offset), frames_offset, frames_data)

BuildFailed(e) == [err |-> e, node |-> NoNode, bytes |-> <<>>]

\* return md_atom.serialize(), r being the outcome of the edits.
BuildSerialize(r) ==
    IF r.err # "none" THEN BuildFailed(r.err)
    ELSE IF ~SerializeOk(r.node) THEN BuildFailed("struct.error")
    ELSE [err |-> "none", node |-> r.node, bytes |-> Serialize(mv, r.node)]

\* build_metadata() from the track lookups on: lv, lt and la are the results
\* of md_atom['trak:%d'] for the video, timecode and audio track (la.pos is
\* <<0>> where the source has no audio track).
BuildTracks(root, lv, lt, la) ==
    IF lv.err # "none" THEN BuildFailed(lv.err)
    ELSE IF lt.err # "none" THEN BuildFailed(lt.err)
    ELSE IF la.err # "none" THEN BuildFailed(la.err)
    ELSE BuildSerialize(
             ApplyEdits(IF la.pos[1] # 0 THEN RemoveChild(root, la.pos[1]) ELSE root,
                        [md |-> <<>>,
                         v  |-> <<TrakRef(lv.pos[1], la.pos[1])>>,
                         t  |-> <<TrakRef(lt.pos[1], la.pos[1])>>],
                        MetadataEdits))

\* build_metadata() after Atom.for_buf(self.src.md_blk), whose result is md0.
BuildClone(md0) ==
    IF md0.err # "none" THEN BuildFailed(md0.err)
    ELSE IF md0.node.cls.base # "ContainerAtom" THEN BuildFailed("TypeError")
    ELSE BuildTracks(md0.node,
                     Locate(md0.node, <<SegI(AID_TRAK, trk_vid_idx)>>),
                     Locate(md0.node, <<SegI(AID_TRAK, trk_tim_idx)>>),
                     IF trk_aud_idx # -1
                     THEN Locate(md0.node, <<SegI(AID_TRAK, trk_aud_idx)>>)
                     ELSE [err |-> "none", pos |-> <<0>>])

\* BrawTimelapser.build_metadata(): the edited tree and its serialization, or
\* the exception.
BuildMetadata == BuildClone(ForBuf(mv, md_blk))

---------------------------------------------------------------------------
(* main(): BrawReader(src).parse(), then BrawTimelapser(br).generate() *)

Init ==
    /\ mv \in SourceFiles
    /\ pc = "parse"
    /\ err = "none"
    /\ ReaderAtRest
    /\ LapserAtRest
    /\ call = NoCall
    /\ CodecAtRest

\* An exception ends main.
Fail(e) == pc' = "failed" /\ err' = e

\* br.parse()
Parse ==
    /\ pc = "parse"
    /\ \E r \in {BrawParse(mv)} :
       /\ md_ofs' = r.md_ofs
       /\ md_blk' = r.md_blk
       /\ md_atom' = r.md_atom
       /\ trk_vid_idx' = r.t.vid
       /\ trk_aud_idx' = r.t.aud
       /\ trk_tim_idx' = r.t.tim
       /\ frames' = r.frames
       /\ IF r.err = "none" THEN pc' = "generate" /\ err' = err ELSE Fail(r.err)
    /\ UNCHANGED <<mv, lapserVars, call, codecVars>>

\* tl.generate(dst, n, start) is entered and calls self.clear().
Clear ==
    /\ pc = "generate"
    /\ n' \in 0..MaxStride
    /\ start' \in 0..MaxStart
    /\ frames_data' = <<>>
    /\ frames_offset' = <<>>
    /\ write_list' = <<>>
    /\ write_offset' = 0
    /\ header' = Fill(16, 0)
    /\ pc' = "pick"
    /\ UNCHANGED <<err, dst, readerVars, call, codecVars>>

\* self.frames_data = self.src.frames[start::n]; a slice step of zero raises
\* ValueError.
PickFrames ==
    /\ pc = "pick"
    /\ IF n = 0
       THEN Fail("ValueError") /\ frames_data' = frames_data
       ELSE /\ frames_data' = PyStride(frames, start, n)
            /\ pc' = "add_header"
            /\ err' = err
    /\ UNCHANGED <<n, start, frames_offset, write_list, write_offset, header, dst,
                   readerVars, call, codecVars>>

\* A copy of the header taken when it is queued: bytes(self.header).
HeaderChunkCopied == BytesRef(header)

\* The object generate hands to add_chunk for the header: self.header itself.
HeaderChunk == HeaderRef

\* self.add_chunk(self.header)
AddHeaderChunk ==
    /\ pc = "add_header"
    /\ \E a \in {AddChunk(write_list, write_offset, HeaderChunk, NoneVal)} :
       /\ write_list' = a.write_list
       /\ write_offset' = a.write_offset
    /\ pc' = "timecode"
    /\ UNCHANGED <<err, n, start, frames_data, frames_offset, header, dst,
                   readerVars, call, codecVars>>

\* The check of handle_timecode on the source's timecode track: the
\* exception it raises, or "none".
TimecodeCheck ==
    LET lt   == Locate(md_atom, <<SegI(AID_TRAK, trk_tim_idx)>>)
        trak == NodeAt(md_atom, lt.pos)
        lsz  == Locate(trak, StblPath(AID_STSZ))
        lco  == Locate(trak, StblPath(AID_CO64))
        stsz == NodeAt(trak, lsz.pos)
        co64 == NodeAt(trak, lco.pos)
    IN  IF lt.err # "none" THEN lt.err
        ELSE IF lsz.err # "none" THEN lsz.err
        ELSE IF stsz.hdr.sample_size # 4 THEN "RuntimeError"
        ELSE IF lco.err # "none" THEN lco.err
        ELSE IF Len(co64.lst) # 1 THEN "RuntimeError"
        ELSE IF co64.lst[1].offset # 4096 THEN "RuntimeError"
        ELSE "none"

\* self.handle_timecode(): the check, then
\* self.add_chunk(self.src.mv[0x1000:0x1004], 0x1000)
HandleTimecode ==
    /\ pc = "timecode"
    /\ \E e \in {TimecodeCheck} :
       \E a \in {AddChunk(write_list, write_offset,
                          ViewRef(Slice(WholeView(mv), 4096, 4100)), 4096)} :
           IF e # "none" THEN Fail(e) /\ UNCHANGED <<write_list, write_offset>>
           ELSE IF a.raised THEN Fail("RuntimeError") /\ UNCHANGED <<write_list, write_offset>>
           ELSE /\ write_list' = a.write_list
                /\ write_offset' = a.write_offset
                /\ pc' = "frames"
                /\ err' = err
    /\ UNCHANGED <<n, start, frames_data, frames_offset, header, dst,
                   readerVars, call, codecVars>>

\* self.handle_frames()
HandleFrames ==
    /\ pc = "frames"
    /\ \E r \in {PlaceFrames(frames_data, 1, write_list, write_offset)} :
       /\ write_list' = r.write_list
       /\ write_offset' = r.write_offset
       /\ frames_offset' = frames_offset \o r.offsets
    /\ pc' = "header"
    /\ UNCHANGED <<err, n, start, frames_data, header, dst, readerVars, call, codecVars>>

\* self.handle_header(): struct.pack_into('>IIQ', self.header, 0, 1, K_MDAT,
\* self.write_offset)
HandleHeader ==
    /\ pc = "header"
    /\ header' = PackBE(1, 4) \o PackBE(K_MDAT, 4) \o PackBE(write_offset, 8)
    /\ pc' = "metadata"
    /\ UNCHANGED <<err, n, start, frames_data, frames_offset, write_list, write_offset,
                   dst, readerVars, call, codecVars>>

\* self.add_chunk(self.build_metadata())
AddMetadata ==
    /\ pc = "metadata"
    /\ \E m \in {BuildMetadata} :
       \E a \in {AddChunk(write_list, write_offset, BytesRef(m.bytes), NoneVal)} :
           IF m.err # "none"
           THEN Fail(m.err) /\ UNCHANGED <<write_list, write_offset>>
           ELSE /\ write_list' = a.write_list
                /\ write_offset' = a.write_offset
                /\ pc' = "write"
                /\ err' = err
    /\ UNCHANGED <<n, start, frames_data, frames_offset, header, dst,
                   readerVars, call, codecVars>>

\* self.write_chunks(dst_filename): refuses an existing file; otherwise a
\* seek and a write per chunk, in list order.
WriteChunks ==
    /\ pc = "write"
    /\ \E exists \in BOOLEAN :
         IF exists
         THEN Fail("RuntimeError") /\ dst' = [dst EXCEPT !.exists = TRUE]
         ELSE /\ dst' = [exists |-> TRUE,
                         writes |-> [i \in 1..Len(write_list) |->
                                        [offset |-> write_list[i].offset,
                                         bytes  |-> DataBytes(write_list[i].data)]]]
              /\ pc' = "done"
              /\ err' = err
    /\ UNCHANGED <<n, start, frames_data, frames_offset, write_list, write_offset, header,
                   readerVars, call, codecVars>>

Next ==
    \/ Parse
    \/ Clear
    \/ PickFrames
    \/ AddHeaderChunk
    \/ HandleTimecode
    \/ HandleFrames
    \/ HandleHeader
    \/ AddMetadata
    \/ WriteChunks

Spec == Init /\ [][Next]_vars

---------------------------------------------------------------------------
(* add_chunk called directly, in any sequence, on a cleared timelapser *)

MaxChunks == 3   \* calls of add_chunk
MaxPages  == 2   \* pages among the requested offsets

\* Lengths of the data handed to add_chunk.
ChunkLens == {0, 16, PAGE, PAGE + 1}

\* Offsets requested from add_chunk, NoneVal for none.
ChunkOffsets == {NoneVal} \cup {k * PAGE + r : k \in 0..MaxPages, r \in {0, 16}}

InitChunk ==
    /\ mv = <<>>
    /\ pc = "api"
    /\ err = "none"
    /\ ReaderAtRest
    /\ n = 1
    /\ start = 0
    /\ frames_data = <<>>
    /\ frames_offset = <<>>
    /\ write_list = <<>>
    /\ write_offset = 0
    /\ header = Fill(16, 0)
    /\ dst = NoDst
    /\ call = NoCall
    /\ CodecAtRest

\* tl.add_chunk(data, offset); an exception is caught by the caller.
ApiAddChunk ==
    /\ pc = "api"
    /\ Len(write_list) < MaxChunks
    /\ \E len \in ChunkLens, offset \in ChunkOffsets :
         \E a \in {AddChunk(write_list, write_offset, BytesRef(Fill(len, 0)), offset)} :
         /\ write_list' = a.write_list
         /\ write_offset' = a.write_offset
         /\ call' = [offset |-> offset, length |-> len, cursor |-> write_offset,
                     raised |-> a.raised, rv |-> a.rv]
    /\ UNCHANGED <<pc, err, n, start, frames_data, frames_offset, header, dst,
                   readerVars, codecVars>>

NextChunk == ApiAddChunk

SpecChunk == InitChunk /\ [][NextChunk]_vars

---------------------------------------------------------------------------
(* Properties of the codec, checked under SpecAtom *)

\* The type code of the buffer's first atom.
RootAid == UnpackBE(buf, 4, 4)

\* The length field of the atom a node was built from, in the buffer B.
Declared(B, node) == UnpackBE(B, node.data.lo, 4)

\* Container and schema-decoded nodes.
HasLength(node) == node.cls.base \in {"ContainerAtom", "DecodedLeafAtom"}

\* Every container and schema-decoded node of the tree, parsed out of B,
\* declares 8 plus the body bytes it holds.
LengthsAgree(B, tree) ==
    \A pos \in Positions(tree) :
        HasLength(NodeAt(tree, pos)) =>
            Declared(B, NodeAt(tree, pos)) = ViewLen(NodeAt(tree, pos).data)

\* C1: whenever Atom.for_buf parses a buffer without error and nothing is
\* modified afterwards, serialize() returns exactly that buffer.
C1_RoundTrip == pc = "serialized" => ser = buf

\* C2: an atom whose type code is not registered does not make parsing fail:
\* for_buf never ends in the KeyError of the class lookup, a top-level atom
\* of such a type becomes an opaque leaf, and serialize() emits it unchanged.
C2_UnknownAtomKept ==
    /\ pc = "raised" => err # "KeyError"
    /\ (pc # "for_buf" /\ Len(buf) >= 8 /\ RootAid \notin Registered) =>
          /\ atom.err = "none"
          /\ atom.node.cls.base = "LeafAtom"
          /\ pc = "serialized" => ser = buf

\* C10: in a tree returned by a successful parse every container and
\* schema-decoded node, the root included, declares 8 plus the body bytes it
\* was built from, a buffer shorter or longer than the root declares being
\* rejected; and after a mutation followed by serialize() every emitted
\* container and schema-decoded length field is 8 plus the emitted body.
C10_LengthInvariant ==
    /\ pc = "parsed" =>
          /\ LengthsAgree(buf, atom.node)
          /\ HasLength(atom.node) => Declared(buf, atom.node) = Len(buf)
    /\ pc = "reserialized" =>
          /\ ForBuf(ser, WholeView(ser)).err = "none"
          /\ LengthsAgree(ser, ForBuf(ser, WholeView(ser)).node)
          /\ UnpackBE(ser, 0, 4) = Len(ser)

\* The offset a walk over the length fields alone stops at: from offset o of
\* the container in view v, one declared length after the other, while a whole
\* header is left and the child declares a length.
RECURSIVE ScanEnd(_, _, _)
ScanEnd(B, v, o) ==
    IF o <= ViewLen(v) - 8 /\ UnpackBE(B, v.lo + o, 4) > 0
    THEN ScanEnd(B, v, o + UnpackBE(B, v.lo + o, 4))
    ELSE o

\* The walk over the children of the container in view v comes to its end,
\* no child declaring length 0.
ScanEnds(B, v) ==
    ScanEnd(B, v, 8) > ViewLen(v) - 8

\* The declared lengths of the children of the container in view v run past
\* its end.
Overrun(B, v) == ScanEnds(B, v) /\ ScanEnd(B, v, 8) > ViewLen(v)

\* Fewer than 8 bytes, and at least one, are left after the last child.
Underrun(B, v) == ScanEnds(B, v) /\ ScanEnd(B, v, 8) < ViewLen(v)

\* The bytes the root atom of the buffer is built from.
RootView == Slice(WholeView(buf), 0, UnpackBE(buf, 0, 4))

\* The buffer starts with the header of a container atom.
RootIsContainer ==
    /\ Len(buf) >= 8
    /\ RootAid \in Registered
    /\ ForAid(RootAid, FALSE).acls.base = "ContainerAtom"

\* The children of a container node lie one after the other from its offset
\* 8 to its end, each holding exactly the bytes it declares.
RECURSIVE Tiles(_, _, _, _)
Tiles(B, node, i, o) ==
    IF i > Len(node.children)
    THEN o = ViewLen(node.data)
    ELSE /\ node.children[i].data.lo = node.data.lo + o
         /\ ViewLen(node.children[i].data) = UnpackBE(B, node.data.lo + o, 4)
         /\ Tiles(B, node, i + 1, o + UnpackBE(B, node.data.lo + o, 4))

\* C11: a container whose children overrun its end or leave 1 to 7 bytes
\* after the last child is rejected with an error; and in every tree a
\* parse returns, the children of every container hold exactly the bytes
\* they declare and fill the container's body exactly.
C11_ExactConsumption ==
    /\ (pc # "for_buf" /\ RootIsContainer
            /\ (Overrun(buf, RootView) \/ Underrun(buf, RootView))) =>
          /\ pc = "raised"
          /\ atom.err # "none"
    /\ pc = "parsed" =>
          \A pos \in Positions(atom.node) :
              NodeAt(atom.node, pos).cls.base = "ContainerAtom" =>
                  Tiles(buf, NodeAt(atom.node, pos), 1, 8)

\* for_buf has rejected, with the error of the check after the loop, a
\* container whose only fault is that its last child declares more bytes
\* than the container holds.
C11_Witness ==
    /\ pc = "raised"
    /\ err = "ValueError"
    /\ RootIsContainer
    /\ UnpackBE(buf, 0, 4) = Len(buf)
    /\ Overrun(buf, RootView)

---------------------------------------------------------------------------
(* Properties of the child scan, checked under SpecScan *)

\* C13: the construction of a container from a finite buffer comes to an
\* end, returning a tree or raising, because every iteration of the child
\* scan that is followed by another has moved the offset forward, also past
\* a child that declares length 0 or less than the 8 bytes of its header.
C13_ScanProgress ==
    [][(pc = "scan" /\ pc' = "scan") => scan_o' > scan_o]_vars

---------------------------------------------------------------------------
(* Properties of generate, checked under Spec *)

\* build_metadata has returned and its result is queued.
Rebuilt == pc \in {"write", "done"}

\* generate has returned.
Generated == pc = "done"

\* k: the number of selected frames.
Selected == Len(frames_data)

\* The metadata block queued last, as a reader of the output file finds it:
\* its bytes parsed again, the tracks told apart by their media headers.
OutBytes == DataBytes(write_list[Len(write_list)].data)

OutTree == ForBuf(OutBytes, WholeView(OutBytes))

\* The video and the timecode track of a parsed 'moov'.
TracksOf(tree) == IdentifyTracks(tree.children, 1, 0, NoTracks).t

Found(tree, path) == Locate(tree, path).err = "none"

AtomAt(tree, path) == NodeAt(tree, Locate(tree, path).pos)

VideoPath(tracks, path) == <<SegI(AID_TRAK, tracks.vid)>> \o path

TimecodePath(tracks, path) == <<SegI(AID_TRAK, tracks.tim)>> \o path

\* The source's track of the given index lies at this position among the
\* children of 'moov'.
SrcTrackPos(idx) == Locate(md_atom, <<SegI(AID_TRAK, idx)>>).pos[1]

\* The seven duration fields of a parsed 'moov' all equal k.
DurationsAre(tree, tracks, k) ==
    /\ tracks.vid # -1 /\ tracks.tim # -1
    /\ \A p \in {<<Seg(AID_MVHD)>>,
                 VideoPath(tracks, <<Seg(AID_TKHD)>>), TimecodePath(tracks, <<Seg(AID_TKHD)>>),
                 VideoPath(tracks, <<Seg(AID_MDIA), Seg(AID_MDHD)>>),
                 TimecodePath(tracks, <<Seg(AID_MDIA), Seg(AID_MDHD)>>)} :
          Found(tree, p) /\ AtomAt(tree, p).hdr.duration = k
    /\ \A p \in {VideoPath(tracks, <<Seg(AID_EDTS), Seg(AID_ELST)>>),
                 TimecodePath(tracks, <<Seg(AID_EDTS), Seg(AID_ELST)>>)} :
          /\ Found(tree, p)
          /\ Len(AtomAt(tree, p).lst) >= 1
          /\ AtomAt(tree, p).lst[1].track_duration = k

\* C3: after a successful build_metadata with k selected frames, the seven
\* duration fields of the rebuilt metadata all equal k: mvhd, tkhd and mdhd
\* of the video and of the timecode track, and the first elst entry of both.
C3_CountConsistency ==
    Rebuilt => OutTree.err = "none" /\ DurationsAre(OutTree.node, TracksOf(OutTree.node), Selected)

\* A rebuild of a source whose audio track lies between the video and the
\* timecode track, with two frames selected.
C3_Witness ==
    /\ Rebuilt
    /\ trk_aud_idx # -1
    /\ SrcTrackPos(trk_vid_idx) < SrcTrackPos(trk_aud_idx)
    /\ SrcTrackPos(trk_aud_idx) < SrcTrackPos(trk_tim_idx)
    /\ Selected = 2

\* The end of a queued chunk.
ChunkEnd(c) == c.offset + DataLen(c.data)

\* C4: in the write list of a successful generate the header is at offset 0,
\* the timecode sample at 0x1000, and every later chunk (the selected frames,
\* then the metadata block) at a multiple of 4096 that is not below the end
\* of the chunk before it.
C4_ChunkPlacement ==
    Generated =>
        /\ Len(write_list) = Selected + 3
        /\ write_list[1].offset = 0
        /\ write_list[1].data.kind = "bytearray"
        /\ write_list[2].offset = 4096
        /\ write_list[2].data = ViewRef(Slice(WholeView(mv), 4096, 4100))
        /\ \A i \in 3..Len(write_list) :
              /\ write_list[i].offset % 4096 = 0
              /\ write_list[i].offset >= ChunkEnd(write_list[i - 1])

\* A generate that placed an empty frame and a frame longer than a page.
C4_Witness ==
    /\ Generated
    /\ \E i, j \in 3..(Len(write_list) - 1) :
          /\ DataLen(write_list[i].data) = 0
          /\ DataLen(write_list[j].data) > 4096

\* C5: after a successful generate the 16 bytes written at offset 0 are
\* be32 1, be32 'mdat', be64 P with P the offset of the metadata block, the
\* last chunk of the write list, whatever the layout of the source; the
\* header queued first holds these bytes, not the zero placeholder.
C5_MetadataPointer ==
    Generated =>
        /\ dst.writes[1].offset = 0
        /\ Len(dst.writes[1].bytes) = 16
        /\ UnpackBE(dst.writes[1].bytes, 0, 4) = 1
        /\ UnpackBE(dst.writes[1].bytes, 4, 4) = K_MDAT
        /\ UnpackBE(dst.writes[1].bytes, 8, 8) = write_list[Len(write_list)].offset
        /\ write_list[Len(write_list)].data.kind = "bytes"
        /\ OutTree.err = "none" /\ OutTree.node.cls.AID = AID_MOOV
        /\ DataBytes(write_list[1].data) = dst.writes[1].bytes

\* A generate from a source whose pointer is laid out as 8, 'wide', ptr - 8,
\* 'mdat', with frames selected.
C5_Witness ==
    /\ Generated
    /\ UnpackBE(mv, 0, 4) = 8
    /\ UnpackBE(mv, 4, 4) = K_WIDE
    /\ Selected >= 1

\* The lists of the stsz and co64 atoms at the paths given, of a parsed
\* 'moov', describe the selected frames and the places of their chunks.
TablesAre(tree, sz, co) ==
    /\ Found(tree, sz) /\ Found(tree, co)
    /\ Len(AtomAt(tree, sz).lst) = Selected
    /\ Len(AtomAt(tree, co).lst) = Selected
    /\ \A i \in 1..Selected :
          /\ AtomAt(tree, sz).lst[i].size = ViewLen(frames_data[i])
          /\ AtomAt(tree, co).lst[i].offset = write_list[2 + i].offset

\* C6: after a successful generate with k selected frames the video track's
\* stsz and co64 lists of the serialized metadata hold k entries each; entry
\* i of stsz is the byte length of the i-th selected frame and entry i of
\* co64 the offset at which that frame's chunk was placed.
C6_SampleTables ==
    Generated =>
        /\ OutTree.err = "none"
        /\ \A i \in 1..Selected : write_list[2 + i].data = ViewRef(frames_data[i])
        /\ TablesAre(OutTree.node, VideoPath(TracksOf(OutTree.node), StblPath(AID_STSZ)),
                     VideoPath(TracksOf(OutTree.node), StblPath(AID_CO64)))

\* A generate that selected frames of different lengths.
C6_Witness ==
    /\ Generated
    /\ Selected >= 2
    /\ ViewLen(frames_data[1]) # ViewLen(frames_data[2])
    /\ ViewLen(frames_data[1]) > 0

\* The stts lists at the two paths of a parsed 'moov' are (k, 1) and (1, k).
SttsAre(tree, v, t, k) ==
    /\ Found(tree, v)
    /\ AtomAt(tree, v).lst = <<[sample_count |-> k, sample_duration |-> 1]>>
    /\ Found(tree, t)
    /\ AtomAt(tree, t).lst = <<[sample_count |-> 1, sample_duration |-> k]>>

\* C7: after a successful rebuild with k selected frames the video track's
\* stts list is the single entry (sample_count k, sample_duration 1) and the
\* timecode track's the single entry (sample_count 1, sample_duration k),
\* whatever the source tables held.
C7_TimeToSample ==
    Rebuilt =>
        /\ OutTree.err = "none"
        /\ SttsAre(OutTree.node, VideoPath(TracksOf(OutTree.node), StblPath(AID_STTS)),
                   TimecodePath(TracksOf(OutTree.node), StblPath(AID_STTS)), Selected)

\* A rebuild of a source whose video stts held two entries, with more than
\* one frame selected.
C7_Witness ==
    /\ Rebuilt
    /\ Len(NodeAt(md_atom, Locate(md_atom, TablePath(trk_vid_idx, AID_STTS)).pos).lst) = 2
    /\ Selected >= 2

\* The indices s, s + n, s + 2n, ... below the source's frame count.
SelectedIdx == {i \in 0..(Len(frames) - 1) : i >= start /\ (i - start) % n = 0}

\* The j-th of them in ascending order.
NthSelected(j) == CHOOSE i \in SelectedIdx : Cardinality({m \in SelectedIdx : m < i}) = j - 1

\* C8: for generate(dst, n, start) with 0 <= start < n on a source of N
\* frames, the frames placed in the output are the source frames at indices
\* start, start + n, start + 2n, ... below N, in ascending order, each once,
\* and the output frame count is the number of these indices.
C8_Decimation ==
    (Generated /\ 0 <= start /\ start < n) =>
        /\ Len(frames_offset) = Cardinality(SelectedIdx)
        /\ Len(write_list) = Cardinality(SelectedIdx) + 3
        /\ \A j \in 1..Cardinality(SelectedIdx) :
              /\ write_list[2 + j].data = ViewRef(frames[NthSelected(j) + 1])
              /\ dst.writes[2 + j].bytes =
                    SubSeq(mv, frames[NthSelected(j) + 1].lo + 1, frames[NthSelected(j) + 1].hi)

\* A generate with a start above 0 that selected two frames.
C8_Witness ==
    /\ Generated
    /\ 0 < start /\ start < n
    /\ Cardinality(SelectedIdx) = 2

\* The metadata block of the source file, parsed on its own.
SrcTree == ForBuf(mv, Slice(WholeView(mv), MetadataPointer(mv), Len(mv)))

\* The kind of a 'trak' node by the media header its media information
\* holds, the first of video, sound and generic: "V", "A", "T", or "N" for
\* none.
TrakKind(c) ==
    LET loc == Locate(c, <<Seg(AID_MDIA), Seg(AID_MINF)>>) IN
    IF loc.err # "none" THEN "N"
    ELSE IF Contains(NodeAt(c, loc.pos), AID_VMHD) THEN "V"
    ELSE IF Contains(NodeAt(c, loc.pos), AID_SMHD) THEN "A"
    ELSE IF Contains(NodeAt(c, loc.pos), AID_GMHD) THEN "T"
    ELSE "N"

\* The kinds of the 'trak' atoms among children, in order.
RECURSIVE TrakKinds(_, _)
TrakKinds(children, i) ==
    IF i > Len(children) THEN <<>>
    ELSE (IF children[i].cls.AID = AID_TRAK THEN <<TrakKind(children[i])>> ELSE <<>>)
         \o TrakKinds(children, i + 1)

\* How many tracks are of kind k.
CountOf(kinds, k) == Cardinality({i \in 1..Len(kinds) : kinds[i] = k})

\* The index from 0 of the track of kind k, the only one of its kind, or -1
\* when there is none.
IndexOf(kinds, k) ==
    IF CountOf(kinds, k) = 0 THEN -1
    ELSE (CHOOSE i \in 1..Len(kinds) : kinds[i] = k) - 1

\* parse() has raised: main has ended with no reader attribute set.
ParseRaised == pc = "failed" /\ md_ofs = NoneVal

\* What parse() made of a source whose tracks are of these kinds.
TracksEnforced(kinds) ==
    IF CountOf(kinds, "V") = 1 /\ CountOf(kinds, "T") = 1 /\ CountOf(kinds, "A") <= 1
    THEN /\ ParseRaised => err # "RuntimeError"
         /\ ~ParseRaised =>
               /\ trk_vid_idx = IndexOf(kinds, "V")
               /\ trk_tim_idx = IndexOf(kinds, "T")
               /\ trk_aud_idx = IndexOf(kinds, "A")
    ELSE ParseRaised /\ err = "RuntimeError"

\* What parse() made of a source whose metadata block parses to md.
TreeEnforced(md) ==
    (md.err = "none" /\ md.node.cls.base = "ContainerAtom") =>
        TracksEnforced(TrakKinds(md.node.children, 1))

\* The source's metadata block is a container that parses.
SrcTreeParses ==
    /\ MetadataPointer(mv) # NoneVal
    /\ SrcTree.err = "none"
    /\ SrcTree.node.cls.base = "ContainerAtom"

\* C12: parse() raises RuntimeError when the 'trak' atoms of the metadata
\* block hold no video track or more than one, no timecode track or more
\* than one, or more than one audio track; with one video, one timecode and
\* at most one audio track it raises no such error, and trk_vid_idx,
\* trk_tim_idx and trk_aud_idx are the positions of those tracks among the
\* 'trak' atoms counted from 0 in order, trk_aud_idx being -1 without an
\* audio track.
C12_TrackCounts ==
    (pc # "parse" /\ MetadataPointer(mv) # NoneVal) => TreeEnforced(SrcTree)

\* parse() has returned on a source whose first track is none of the three
\* kinds, the video and the timecode track following it.
C12_Witness ==
    /\ pc = "generate"
    /\ SrcTreeParses
    /\ TrakKinds(SrcTree.node.children, 1) = <<"N", "V", "T">>

\* The four tables build_metadata gives a new list: the time-to-sample
\* tables of the video and the timecode track, the sample sizes and the
\* chunk offsets of the video track.
RebuiltTables(tracks) ==
    {VideoPath(tracks, StblPath(AID_STTS)), TimecodePath(tracks, StblPath(AID_STTS)),
     VideoPath(tracks, StblPath(AID_STSZ)), VideoPath(tracks, StblPath(AID_CO64))}

\* Each of the four tables of the tree is there and its header counts the
\* entries its list holds.
CountsAgree(tree, tracks) ==
    \A p \in RebuiltTables(tracks) :
        /\ Found(tree, p)
        /\ AtomAt(tree, p).hdr.num_entries = Len(AtomAt(tree, p).lst)

\* The tracks parse() has recorded.
SrcTracks == [vid |-> trk_vid_idx, aud |-> trk_aud_idx, tim |-> trk_tim_idx]

\* C14: when the four tables of the source counted their entries rightly,
\* the metadata block build_metadata serializes, parsed again, has in each of
\* the four tables a header num_entries equal to the number of entries that
\* follow it, also when the source's video stts held more than one entry.
C14_EntryCounts ==
    (Rebuilt /\ CountsAgree(md_atom, SrcTracks)) =>
        /\ OutTree.err = "none"
        /\ CountsAgree(OutTree.node, TracksOf(OutTree.node))

---------------------------------------------------------------------------
(* Properties of add_chunk, checked under SpecChunk *)

\* C9: a call of add_chunk with an explicit offset below the cursor is
\* rejected and leaves the write list and the cursor as they were; a call
\* with an offset at or above the cursor is accepted and places the chunk at
\* exactly that offset.
C9_NoRetroactivePlacement ==
    [][call'.offset # NoneVal =>
          IF call'.offset < write_offset
          THEN /\ call'.raised
               /\ write_list' = write_list
               /\ write_offset' = write_offset
          ELSE /\ ~call'.raised
               /\ Len(write_list') = Len(write_list) + 1
               /\ write_list'[Len(write_list')].offset = call'.offset]_vars

=============================================================================
